---- MODULE Spec2Model ----
(***************************************************************************)
(* Model of the asynchronous dispatch engine of xiangxinai-go:             *)
(* AsyncClient (src/async_client.go) on top of the synchronous Client      *)
(* (src/unnamed/part_000, second copy of the client, lines 559..1246).     *)
(*                                                                         *)
(* Goroutines are modelled as processes with a program counter:            *)
(*   - one worker per single-call submission (ids 1..NumSingles),          *)
(*   - one worker per batch item (ids NumSingles+1..NumSingles+MaxBatch),  *)
(*   - the batch collector goroutine,                                      *)
(*   - the callers of Close().                                             *)
(* An unrecovered panic runs the deferred calls of the panicking goroutine *)
(* (other goroutines keep running meanwhile) and then ends the process.    *)
(***************************************************************************)
EXTENDS Integers, Sequences, FiniteSets

\* ---------------------------------------------------------------- bounds
NumSingles == 2
MaxBatch == 2
NumClosers == 2
\* ClientConfig.MaxRetries and maxConcurrency handed to NewAsyncClientWithConfig
ConfigMaxRetries == 1
ConfigMaxConcurrency == 1
\* largest ClientConfig.MaxRetries a call studied on its own is given
MaxRetriesArg == 2

\* ------------------------------------------------------- program constants
DefaultMaxRetries == 3
DefaultConcurrency == 10
ResultChanCap == 1

Singles == 1..NumSingles
Items == (NumSingles + 1)..(NumSingles + MaxBatch)
Workers == Singles \cup Items
Closers == 1..NumClosers

\* the context of the batch call; single call t has context t
BatchCtx == NumSingles + 1
Contexts == Singles \cup {BatchCtx}
CtxOf(w) == IF w \in Singles THEN w ELSE BatchCtx

\* index (1-based) of a batch item worker in the contents slice
IndexOf(w) == w - NumSingles
ItemAt(i) == NumSingles + i

\* Odd single-call ids are CheckPromptWithModelAsync or
\* CheckConversationWithModelAsync submissions, even ids HealthCheckAsync or
\* GetModelsAsync submissions; batch items belong to BatchCheckPromptsWithModel
\* or BatchCheckConversationsWithModel. Only the first and the last family
\* go through ac.workerPool.
UsesPool(w) == w \in Items \/ w % 2 = 1

\* the synchronous Client method a worker's Executor call can be
EntryPoints(w) ==
  IF UsesPool(w) THEN {"CheckPrompt", "CheckConversation"}
                 ELSE {"HealthCheck", "GetModels"}

\* mutant: only a negative maxConcurrency falls back to the default
NewAsyncClientWithConfigNegOnly(mc) ==
  IF mc < 0 THEN DefaultConcurrency ELSE mc

\* NewAsyncClientWithConfig: maxConcurrency <= 0 falls back to 10
NewAsyncClientWithConfig(mc) ==
  IF mc <= 0 THEN DefaultConcurrency ELSE mc

\* NewAsyncClient: NewAsyncClientWithConfig(defaults, 10)
NewAsyncClient == NewAsyncClientWithConfig(DefaultConcurrency)

\* NewClientWithConfig: a negative MaxRetries falls back to DefaultMaxRetries
NewClientWithConfig(cfgMaxRetries) ==
  IF cfgMaxRetries < 0 THEN DefaultMaxRetries ELSE cfgMaxRetries

maxRetries == NewClientWithConfig(ConfigMaxRetries)

VARIABLES
  capacity,    \* cap(ac.workerPool)
  tokens,      \* len(ac.workerPool)
  poolClosed,  \* close(ac.workerPool) has run
  wg,          \* counter of ac.wg
  closed,      \* ac.closed
  crashed,     \* the process ended on an unrecovered panic
  panicking,   \* workers unwinding their deferred calls after a panic
  ctxDone,     \* ctxDone[c]: context c is cancelled or timed out
  pc,          \* pc[w]: position of worker w
  attempt,     \* attempt[w]: loop variable of makeRequestWithData
  res,         \* res[w]: the outcome the worker carries (error kind or "ok")
  chan,        \* chan[t]: buffer of the single call's resultChan
  chClosed,    \* chClosed[t]: close(resultChan) has run
  sent,        \* sent[t]: number of sends on resultChan (history)
  invoked,     \* invoked[w]: the Executor was called by w (history)
  lateCtx,     \* lateCtx[w]: the context was already done when w got its slot (history)
  bpc,         \* position of the batch collector goroutine
  bM,          \* len(contents) of the batch
  results,     \* results[i]: cell i of the collector's slice
  bnext,       \* range index of the emitting loop
  emitted,     \* items received by the batch consumer, in order (history)
  bChClosed,   \* the batch resultChan is closed
  reading,     \* the batch consumer is still receiving
  written,     \* indices of the cells in the order they were written (history)
  cpc,         \* cpc[c]: position of Close() caller c
  flipped,     \* closers that flipped ac.closed (history)
  poolCloses,  \* number of close(ac.workerPool) executed (history)
  maxConcurrency, \* the argument NewAsyncClientWithConfig was called with
  rMax,        \* c.maxRetries of the Client a makeRequestWithData call runs on
  rpc,         \* position of that call: idle, request, sleep, returned
  rAttempt,    \* its loop variable attempt
  rTrace,      \* what its attempts were answered with, in order (history)
  rWaits,      \* the durations it handed to c.sleep, in seconds (history)
  rErr,        \* the error it returned ("ok" for a response)
  rCtxDone,    \* its context is done
  rCutAt       \* attempts made when the context ended during a wait, else 0 (history)

vars == <<capacity, tokens, poolClosed, wg, closed, crashed, panicking, ctxDone,
          pc, attempt, res, chan, chClosed, sent, invoked, lateCtx,
          bpc, bM, results, bnext, emitted, bChClosed, reading, written,
          cpc, flipped, poolCloses,
          maxConcurrency, rMax, rpc, rAttempt, rTrace, rWaits, rErr, rCtxDone, rCutAt>>

clientVars == <<capacity, tokens, poolClosed, wg, closed>>
workerVars == <<pc, attempt, res, chan, chClosed, sent, invoked, lateCtx>>
batchVars == <<bpc, bM, results, bnext, emitted, bChClosed, reading, written>>
closeVars == <<cpc, flipped, poolCloses>>
retryVars == <<rMax, rpc, rAttempt, rTrace, rWaits, rErr, rCtxDone, rCutAt>>
\* what the engine's own steps leave alone: the constructor argument and the
\* state of a makeRequestWithData call made on the synchronous Client directly
syncVars == <<maxConcurrency, retryVars>>

\* the zero value of AsyncResult (a cell no worker wrote)
ZeroCell == [writer |-> 0, kind |-> "zero"]

\* the state after NewAsyncClientWithConfig(&ClientConfig{MaxRetries: mr}, mc)
InitWith(mc, mr) ==
  /\ maxConcurrency = mc
  /\ capacity = NewAsyncClientWithConfig(mc)
  /\ tokens = 0
  /\ poolClosed = FALSE
  /\ wg = 0
  /\ closed = FALSE
  /\ crashed = FALSE
  /\ panicking = {}
  /\ ctxDone = [c \in Contexts |-> FALSE]
  /\ pc = [w \in Workers |-> "idle"]
  /\ attempt = [w \in Workers |-> 0]
  /\ res = [w \in Workers |-> "none"]
  /\ chan = [t \in Singles |-> <<>>]
  /\ chClosed = [t \in Singles |-> FALSE]
  /\ sent = [t \in Singles |-> 0]
  /\ invoked = [w \in Workers |-> FALSE]
  /\ lateCtx = [w \in Workers |-> FALSE]
  /\ bpc = "idle"
  /\ bM = 0
  /\ results = [i \in 1..MaxBatch |-> ZeroCell]
  /\ bnext = 1
  /\ emitted = <<>>
  /\ bChClosed = FALSE
  /\ reading = TRUE
  /\ written = <<>>
  /\ cpc = [c \in Closers |-> "idle"]
  /\ flipped = {}
  /\ poolCloses = 0
  /\ rMax = NewClientWithConfig(mr)
  /\ rpc = "idle"
  /\ rAttempt = 0
  /\ rTrace = <<>>
  /\ rWaits = <<>>
  /\ rErr = "none"
  /\ rCtxDone = FALSE
  /\ rCutAt = 0

Init == InitWith(ConfigMaxConcurrency, ConfigMaxRetries)

\* ------------------------------------------------------------ the Executor
\* What one HTTP attempt can come back with: a transport error (err != nil),
\* a 2xx with a body that parses or not, or an HTTP error status.
Responses == {"neterr", "200", "401", "429"}

\* the same for a call studied on its own: the 2xx body that does not parse,
\* the 422 and the statuses of the default branch, a server error ("500") and
\* another client error ("404"), are told apart as well
AllResponses == Responses \cup {"200badjson", "422", "500", "404"}

\* With the context done the transport returns an error (resty SetContext(ctx)).
ResponsesUnder(done) == IF done THEN {"neterr"} ELSE Responses

Retry == [retry |-> TRUE, kind |-> "none"]
Return(kind) == [retry |-> FALSE, kind |-> kind]

\* mutant: the rate-limit branch stops retrying one attempt early
makeRequestAttemptOneLess(max, a, r) ==
  CASE r = "neterr"     -> IF a < max THEN Retry ELSE Return("NetworkError")
    [] r = "200"        -> Return("ok")
    [] r = "200badjson" -> Return("XiangxinAIError")
    [] r = "401"        -> Return("AuthenticationError")
    [] r = "422"        -> Return("ValidationError")
    [] r = "429"        -> IF a < max - 1 THEN Retry ELSE Return("RateLimitError")
    [] OTHER            -> IF a < max THEN Retry ELSE Return("XiangxinAIError")

\* mutant: a 401 is treated like the other statuses and retried
makeRequestAttemptRetry401(max, a, r) ==
  CASE r = "neterr"     -> IF a < max THEN Retry ELSE Return("NetworkError")
    [] r = "200"        -> Return("ok")
    [] r = "200badjson" -> Return("XiangxinAIError")
    [] r = "401"        -> IF a < max THEN Retry ELSE Return("AuthenticationError")
    [] r = "422"        -> Return("ValidationError")
    [] r = "429"        -> IF a < max THEN Retry ELSE Return("RateLimitError")
    [] OTHER            -> IF a < max THEN Retry ELSE Return("XiangxinAIError")

\* mutant: the exhausted rate-limit branch returns lastErr, which only the
\* network branch set
makeRequestAttemptStaleErr(max, a, r) ==
  CASE r = "neterr"     -> IF a < max THEN Retry ELSE Return("NetworkError")
    [] r = "200"        -> Return("ok")
    [] r = "200badjson" -> Return("XiangxinAIError")
    [] r = "401"        -> Return("AuthenticationError")
    [] r = "422"        -> Return("ValidationError")
    [] r = "429"        -> IF a < max THEN Retry ELSE Return("NetworkError")
    [] OTHER            -> IF a < max THEN Retry ELSE Return("XiangxinAIError")

\* mutant: a success after a retry is returned together with lastErr
makeRequestAttemptSurfaceErr(max, a, r) ==
  CASE r = "neterr"     -> IF a < max THEN Retry ELSE Return("NetworkError")
    [] r = "200"        -> IF a > 0 THEN Return("NetworkError") ELSE Return("ok")
    [] r = "200badjson" -> Return("XiangxinAIError")
    [] r = "401"        -> Return("AuthenticationError")
    [] r = "422"        -> Return("ValidationError")
    [] r = "429"        -> IF a < max THEN Retry ELSE Return("RateLimitError")
    [] OTHER            -> IF a < max THEN Retry ELSE Return("XiangxinAIError")

\* One pass of the body of makeRequestWithData's loop, at loop index a, on a
\* Client whose maxRetries is max, the attempt being answered with r.
makeRequestAttempt(max, a, r) ==
  CASE r = "neterr"     -> IF a < max THEN Retry ELSE Return("NetworkError")
    [] r = "200"        -> Return("ok")
    [] r = "200badjson" -> Return("XiangxinAIError")
    [] r = "401"        -> Return("AuthenticationError")
    [] r = "422"        -> Return("ValidationError")
    [] r = "429"        -> IF a < max THEN Retry ELSE Return("RateLimitError")
    [] OTHER            -> IF a < max THEN Retry ELSE Return("XiangxinAIError")

\* the same on the Client the AsyncClient was built with
AttemptOutcome(a, r) == makeRequestAttempt(maxRetries, a, r)

\* mutant: the backoff grows linearly
calculateBackoffLinear(a) == 2 * a + 1

\* calculateBackoff: time.Duration(math.Pow(2, attempt)) * time.Second +
\* time.Second, in seconds
calculateBackoff(a) == 2 ^ a + 1

\* handleErrorResponse: the error of a non-2xx status
handleErrorResponse(r) ==
  CASE r = "401" -> "AuthenticationError"
    [] r = "422" -> "ValidationError"
    [] r = "429" -> "RateLimitError"
    [] OTHER     -> "XiangxinAIError"

\* HealthCheck / GetModels: one request, no retry loop
HealthCheck(r) ==
  CASE r = "neterr"     -> Return("NetworkError")
    [] r = "200"        -> Return("ok")
    [] r = "200badjson" -> Return("XiangxinAIError")
    [] OTHER            -> Return(handleErrorResponse(r))

\* The inputs a check can be handed: text to classify, blank content, or a
\* malformed conversation (empty list, nil message, unknown role).
Inputs == {"text", "blank", "invalid"}

\* CheckPrompt / CheckConversationWithModel before any request is made:
\* "request" when the call goes on to makeRequestWithData, else what is returned.
CheckEntry(kind, input) ==
  CASE input = "blank" -> "ok"
    [] input = "invalid" /\ kind = "CheckConversation" -> "ValidationError"
    [] OTHER -> "request"

\* ------------------------------------------------------------- helpers
Alive == ~crashed

HoldsSlot(w) == UsesPool(w) /\ pc[w] \in {"request", "sleep", "deliver", "release"}

InExecutor(w) == pc[w] \in {"request", "sleep"}

\* single-call worker finished with its deferred calls
Delivered(t) == pc[t] \in {"done", "rejected"}

\* first deferred call of a worker that holds no slot
AfterBody(w) == IF w \in Singles THEN "closech" ELSE "wgdone"

Cell(w, kind) == [writer |-> IndexOf(w), kind |-> kind]

\* GetConcurrency: cap(ac.workerPool)
GetConcurrency == capacity

\* GetActiveWorkers: len(ac.workerPool)
GetActiveWorkers == tokens

\* ------------------------------------------------------ single submissions
\* mutant: the submission does not look at ac.closed
SubmitNoCheck(t) ==
  /\ Alive
  /\ pc[t] = "idle"
  /\ IF FALSE
       THEN /\ pc' = [pc EXCEPT ![t] = "rejected"]
            /\ res' = [res EXCEPT ![t] = "ClosedError"]
            /\ chan' = [chan EXCEPT ![t] = Append(@, "ClosedError")]
            /\ sent' = [sent EXCEPT ![t] = @ + 1]
            /\ chClosed' = [chClosed EXCEPT ![t] = TRUE]
       ELSE /\ pc' = [pc EXCEPT ![t] = "admitted"]
            /\ UNCHANGED <<res, chan, sent, chClosed>>
  /\ UNCHANGED <<syncVars, clientVars, crashed, panicking, ctxDone, attempt, invoked, lateCtx,
                 batchVars, closeVars>>

\* mutant: Close() keeps closeMu locked while it waits (defer Unlock), so the
\* RLock of a submission waits for the drain
SubmitCheckLocked(t) ==
  /\ \A c \in Closers : cpc[c] \notin {"wait", "blocked", "woken", "closepool"}
  /\ Alive
  /\ pc[t] = "idle"
  /\ IF closed
       THEN /\ pc' = [pc EXCEPT ![t] = "rejected"]
            /\ res' = [res EXCEPT ![t] = "ClosedError"]
            /\ chan' = [chan EXCEPT ![t] = Append(@, "ClosedError")]
            /\ sent' = [sent EXCEPT ![t] = @ + 1]
            /\ chClosed' = [chClosed EXCEPT ![t] = TRUE]
       ELSE /\ pc' = [pc EXCEPT ![t] = "admitted"]
            /\ UNCHANGED <<res, chan, sent, chClosed>>
  /\ UNCHANGED <<syncVars, clientVars, crashed, panicking, ctxDone, attempt, invoked, lateCtx,
                 batchVars, closeVars>>

\* CheckPromptWithModelAsync .. GetModelsAsync up to the closed check
SubmitCheck(t) ==
  /\ Alive
  /\ pc[t] = "idle"
  /\ IF closed
       THEN /\ pc' = [pc EXCEPT ![t] = "rejected"]
            /\ res' = [res EXCEPT ![t] = "ClosedError"]
            /\ chan' = [chan EXCEPT ![t] = Append(@, "ClosedError")]
            /\ sent' = [sent EXCEPT ![t] = @ + 1]
            /\ chClosed' = [chClosed EXCEPT ![t] = TRUE]
       ELSE /\ pc' = [pc EXCEPT ![t] = "admitted"]
            /\ UNCHANGED <<res, chan, sent, chClosed>>
  /\ UNCHANGED <<syncVars, clientVars, crashed, panicking, ctxDone, attempt, invoked, lateCtx,
                 batchVars, closeVars>>

\* ac.wg.Add(1); go func() {...}
Spawn(t) ==
  /\ Alive
  /\ pc[t] = "admitted"
  /\ wg' = wg + 1
  /\ pc' = [pc EXCEPT ![t] = IF UsesPool(t) THEN "select" ELSE "request"]
  /\ invoked' = [invoked EXCEPT ![t] = ~UsesPool(t)]
  /\ UNCHANGED <<syncVars, capacity, tokens, poolClosed, closed, crashed, panicking, ctxDone,
                 attempt, res, chan, chClosed, sent, lateCtx, batchVars, closeVars>>


\* ----------------------------------------------------------------- workers
\* mutant: the send succeeds whatever the buffer holds (no concurrency cap)
AcquireUnbounded(w) ==
  /\ Alive
  /\ pc[w] = "select"
  /\ ~poolClosed
  /\ tokens' = tokens + 1
  /\ invoked' = [invoked EXCEPT ![w] = TRUE]
  /\ lateCtx' = [lateCtx EXCEPT ![w] = ctxDone[CtxOf(w)]]
  /\ \E kind \in EntryPoints(w), input \in Inputs :
       LET entry == CheckEntry(kind, input) IN
         IF entry = "request"
           THEN /\ pc' = [pc EXCEPT ![w] = "request"]
                /\ res' = res
           ELSE /\ pc' = [pc EXCEPT ![w] = "deliver"]
                /\ res' = [res EXCEPT ![w] = entry]
  /\ UNCHANGED <<syncVars, capacity, poolClosed, wg, closed, crashed, panicking, ctxDone,
                 attempt, chan, chClosed, sent, batchVars, closeVars>>

\* select: case ac.workerPool <- struct{}{} with room in the buffer; then the
\* Executor is entered (CheckPromptWithModel / CheckConversationWithModel)
Acquire(w) ==
  /\ Alive
  /\ pc[w] = "select"
  /\ ~poolClosed
  /\ tokens < capacity
  /\ tokens' = tokens + 1
  /\ invoked' = [invoked EXCEPT ![w] = TRUE]
  /\ lateCtx' = [lateCtx EXCEPT ![w] = ctxDone[CtxOf(w)]]
  /\ \E kind \in EntryPoints(w), input \in Inputs :
       LET entry == CheckEntry(kind, input) IN
         IF entry = "request"
           THEN /\ pc' = [pc EXCEPT ![w] = "request"]
                /\ res' = res
           ELSE /\ pc' = [pc EXCEPT ![w] = "deliver"]
                /\ res' = [res EXCEPT ![w] = entry]
  /\ UNCHANGED <<syncVars, capacity, poolClosed, wg, closed, crashed, panicking, ctxDone,
                 attempt, chan, chClosed, sent, batchVars, closeVars>>

\* mutant: the slot release is deferred before the select, so a worker that
\* gave up on ctx.Done() goes on to receive from ac.workerPool
SelectCtxDoneRelease(w) ==
  /\ Alive
  /\ pc[w] = "select"
  /\ ctxDone[CtxOf(w)]
  /\ pc' = [pc EXCEPT ![w] = "release"]
  /\ res' = [res EXCEPT ![w] = "ctxErr"]
  /\ IF w \in Singles
       THEN /\ chan' = [chan EXCEPT ![w] = Append(@, "ctxErr")]
            /\ sent' = [sent EXCEPT ![w] = @ + 1]
            /\ results' = results
            /\ written' = written
       ELSE /\ results' = [results EXCEPT ![IndexOf(w)] = Cell(w, "ctxErr")]
            /\ written' = Append(written, IndexOf(w))
            /\ UNCHANGED <<chan, sent>>
  /\ UNCHANGED <<syncVars, clientVars, crashed, panicking, ctxDone, attempt, chClosed,
                 invoked, lateCtx, bpc, bM, bnext, emitted, bChClosed, reading,
                 closeVars>>

\* select: case <-ctx.Done(): the context error is the result
SelectCtxDone(w) ==
  /\ Alive
  /\ pc[w] = "select"
  /\ ctxDone[CtxOf(w)]
  /\ pc' = [pc EXCEPT ![w] = AfterBody(w)]
  /\ res' = [res EXCEPT ![w] = "ctxErr"]
  /\ IF w \in Singles
       THEN /\ chan' = [chan EXCEPT ![w] = Append(@, "ctxErr")]
            /\ sent' = [sent EXCEPT ![w] = @ + 1]
            /\ results' = results
            /\ written' = written
       ELSE /\ results' = [results EXCEPT ![IndexOf(w)] = Cell(w, "ctxErr")]
            /\ written' = Append(written, IndexOf(w))
            /\ UNCHANGED <<chan, sent>>
  /\ UNCHANGED <<syncVars, clientVars, crashed, panicking, ctxDone, attempt, chClosed,
                 invoked, lateCtx, bpc, bM, bnext, emitted, bChClosed, reading,
                 closeVars>>

\* select: the send case on a closed workerPool panics (send on closed channel);
\* the goroutine starts running its deferred calls
SelectPanic(w) ==
  /\ Alive
  /\ pc[w] = "select"
  /\ poolClosed
  /\ panicking' = panicking \cup {w}
  /\ pc' = [pc EXCEPT ![w] = AfterBody(w)]
  /\ UNCHANGED <<syncVars, clientVars, crashed, ctxDone, attempt, res, chan, chClosed, sent,
                 invoked, lateCtx, batchVars, closeVars>>

\* one attempt of makeRequestWithData (or the one request of HealthCheck/GetModels)
Request(w) ==
  /\ Alive
  /\ pc[w] = "request"
  /\ \E r \in ResponsesUnder(ctxDone[CtxOf(w)]) :
       LET o == IF UsesPool(w) THEN AttemptOutcome(attempt[w], r) ELSE HealthCheck(r) IN
         IF o.retry
           THEN /\ pc' = [pc EXCEPT ![w] = "sleep"]
                /\ res' = res
           ELSE /\ pc' = [pc EXCEPT ![w] = "deliver"]
                /\ res' = [res EXCEPT ![w] = o.kind]
  /\ UNCHANGED <<syncVars, clientVars, crashed, panicking, ctxDone, attempt, chan, chClosed,
                 sent, invoked, lateCtx, batchVars, closeVars>>

\* c.sleep(ctx, c.calculateBackoff(attempt)) returns (timer or ctx.Done()); continue
Sleep(w) ==
  /\ Alive
  /\ pc[w] = "sleep"
  /\ attempt' = [attempt EXCEPT ![w] = @ + 1]
  /\ pc' = [pc EXCEPT ![w] = "request"]
  /\ UNCHANGED <<syncVars, clientVars, crashed, panicking, ctxDone, res, chan, chClosed,
                 sent, invoked, lateCtx, batchVars, closeVars>>

\* mutant: a batch worker appends its result instead of writing cell index
DeliverAppend(w) ==
  /\ Alive
  /\ pc[w] = "deliver"
  /\ pc' = [pc EXCEPT ![w] = IF UsesPool(w) THEN "release" ELSE AfterBody(w)]
  /\ IF w \in Singles
       THEN /\ Len(chan[w]) < ResultChanCap
            /\ chan' = [chan EXCEPT ![w] = Append(@, res[w])]
            /\ sent' = [sent EXCEPT ![w] = @ + 1]
            /\ results' = results
            /\ written' = written
       ELSE /\ results' = [results EXCEPT ![Len(written) + 1] = Cell(w, res[w])]
            /\ written' = Append(written, IndexOf(w))
            /\ UNCHANGED <<chan, sent>>
  /\ UNCHANGED <<syncVars, clientVars, crashed, panicking, ctxDone, attempt, res, chClosed,
                 invoked, lateCtx, bpc, bM, bnext, emitted, bChClosed, reading,
                 closeVars>>

\* mutant: resultChan is made without a buffer, so the send needs a receiver
DeliverUnbuffered(w) ==
  /\ Alive
  /\ pc[w] = "deliver"
  /\ pc' = [pc EXCEPT ![w] = IF UsesPool(w) THEN "release" ELSE AfterBody(w)]
  /\ IF w \in Singles
       THEN /\ Len(chan[w]) < ResultChanCap - 1
            /\ chan' = [chan EXCEPT ![w] = Append(@, res[w])]
            /\ sent' = [sent EXCEPT ![w] = @ + 1]
            /\ results' = results
            /\ written' = written
       ELSE /\ results' = [results EXCEPT ![IndexOf(w)] = Cell(w, res[w])]
            /\ written' = Append(written, IndexOf(w))
            /\ UNCHANGED <<chan, sent>>
  /\ UNCHANGED <<syncVars, clientVars, crashed, panicking, ctxDone, attempt, res, chClosed,
                 invoked, lateCtx, bpc, bM, bnext, emitted, bChClosed, reading,
                 closeVars>>

\* resultChan <- AsyncResult{Result: result, Error: err}   (single call)
\* results[index] = AsyncResult{Result: result, Error: err} (batch item)
Deliver(w) ==
  /\ Alive
  /\ pc[w] = "deliver"
  /\ pc' = [pc EXCEPT ![w] = IF UsesPool(w) THEN "release" ELSE AfterBody(w)]
  /\ IF w \in Singles
       THEN /\ Len(chan[w]) < ResultChanCap
            /\ chan' = [chan EXCEPT ![w] = Append(@, res[w])]
            /\ sent' = [sent EXCEPT ![w] = @ + 1]
            /\ results' = results
            /\ written' = written
       ELSE /\ results' = [results EXCEPT ![IndexOf(w)] = Cell(w, res[w])]
            /\ written' = Append(written, IndexOf(w))
            /\ UNCHANGED <<chan, sent>>
  /\ UNCHANGED <<syncVars, clientVars, crashed, panicking, ctxDone, attempt, res, chClosed,
                 invoked, lateCtx, bpc, bM, bnext, emitted, bChClosed, reading,
                 closeVars>>

\* mutant: the slot is given back after a successful call only (no defer)
ReleaseOnSuccessOnly(w) ==
  /\ Alive
  /\ pc[w] = "release"
  /\ tokens > 0
  /\ tokens' = IF res[w] = "ok" THEN tokens - 1 ELSE tokens
  /\ pc' = [pc EXCEPT ![w] = AfterBody(w)]
  /\ UNCHANGED <<syncVars, capacity, poolClosed, wg, closed, crashed, panicking, ctxDone,
                 attempt, res, chan, chClosed, sent, invoked, lateCtx, batchVars,
                 closeVars>>

\* deferred: func() { <-ac.workerPool }()
Release(w) ==
  /\ Alive
  /\ pc[w] = "release"
  /\ tokens > 0
  /\ tokens' = tokens - 1
  /\ pc' = [pc EXCEPT ![w] = AfterBody(w)]
  /\ UNCHANGED <<syncVars, capacity, poolClosed, wg, closed, crashed, panicking, ctxDone,
                 attempt, res, chan, chClosed, sent, invoked, lateCtx, batchVars,
                 closeVars>>

\* deferred: close(resultChan)
CloseChan(t) ==
  /\ Alive
  /\ pc[t] = "closech"
  /\ chClosed' = [chClosed EXCEPT ![t] = TRUE]
  /\ pc' = [pc EXCEPT ![t] = "wgdone"]
  /\ UNCHANGED <<syncVars, clientVars, crashed, panicking, ctxDone, attempt, res, chan, sent,
                 invoked, lateCtx, batchVars, closeVars>>

\* deferred: ac.wg.Done() (single call) or wg.Done() of the collector's group
\* (batch item). A Done that brings ac.wg to zero releases the blocked Wait.
WgDone(w) ==
  /\ Alive
  /\ pc[w] = "wgdone"
  /\ pc' = [pc EXCEPT ![w] = "done"]
  /\ IF w \in Singles
       THEN /\ wg' = wg - 1
            /\ cpc' = [c \in Closers |->
                         IF wg - 1 = 0 /\ cpc[c] = "blocked" THEN "woken" ELSE cpc[c]]
       ELSE UNCHANGED <<wg, cpc>>
  /\ UNCHANGED <<syncVars, capacity, tokens, poolClosed, closed, crashed, panicking, ctxDone,
                 attempt, res, chan, chClosed, sent, invoked, lateCtx, batchVars,
                 flipped, poolCloses>>

\* the caller's context is cancelled or its deadline passes
Cancel(c) ==
  /\ Alive
  /\ ~ctxDone[c]
  /\ ctxDone' = [ctxDone EXCEPT ![c] = TRUE]
  /\ UNCHANGED <<syncVars, clientVars, crashed, panicking, workerVars, batchVars, closeVars>>


\* ------------------------------------------------------------------- batch
\* BatchCheckPromptsWithModel / BatchCheckConversationsWithModel up to the
\* closed check; on a closed client the goroutine that emits the errors starts
SubmitBatch(m) ==
  /\ Alive
  /\ bpc = "idle"
  /\ bM' = m
  /\ bpc' = IF closed THEN "closedemit" ELSE "admitted"
  /\ UNCHANGED <<syncVars, clientVars, crashed, panicking, ctxDone, workerVars, results,
                 bnext, emitted, bChClosed, reading, written, closeVars>>

\* mutant: the spawning loop runs once more than there are inputs
BatchSpawnOneMore ==
  /\ Alive
  /\ bpc = "admitted"
  /\ bpc' = "wait"
  /\ pc' = [w \in Workers |->
              IF w \in Items /\ IndexOf(w) <= bM + 1 THEN "select" ELSE pc[w]]
  /\ UNCHANGED <<syncVars, clientVars, crashed, panicking, ctxDone, attempt, res, chan,
                 chClosed, sent, invoked, lateCtx, bM, results, bnext, emitted,
                 bChClosed, reading, written, closeVars>>

\* the collector goroutine: results := make(..., len(contents)); one worker per item
BatchSpawn ==
  /\ Alive
  /\ bpc = "admitted"
  /\ bpc' = "wait"
  /\ pc' = [w \in Workers |->
              IF w \in Items /\ IndexOf(w) <= bM THEN "select" ELSE pc[w]]
  /\ UNCHANGED <<syncVars, clientVars, crashed, panicking, ctxDone, attempt, res, chan,
                 chClosed, sent, invoked, lateCtx, bM, results, bnext, emitted,
                 bChClosed, reading, written, closeVars>>

\* wg.Wait() of the collector returns once every item worker called wg.Done()
BatchWait ==
  /\ Alive
  /\ bpc = "wait"
  /\ \A i \in 1..bM : pc[ItemAt(i)] = "done"
  /\ bpc' = "emit"
  /\ UNCHANGED <<syncVars, clientVars, crashed, panicking, ctxDone, workerVars, bM, results,
                 bnext, emitted, bChClosed, reading, written, closeVars>>

\* mutant: the emitting loop steps over a cell
EmitSendSkip ==
  /\ Alive
  /\ bpc = "emit"
  /\ bnext <= bM
  /\ reading
  /\ emitted' = Append(emitted, results[bnext])
  /\ bnext' = bnext + 2
  /\ UNCHANGED <<syncVars, clientVars, crashed, panicking, ctxDone, workerVars, bpc, bM,
                 results, bChClosed, reading, written, closeVars>>

\* emitting loop, select case resultChan <- result (unbuffered: needs the receiver)
EmitSend ==
  /\ Alive
  /\ bpc = "emit"
  /\ bnext <= bM
  /\ reading
  /\ emitted' = Append(emitted, results[bnext])
  /\ bnext' = bnext + 1
  /\ UNCHANGED <<syncVars, clientVars, crashed, panicking, ctxDone, workerVars, bpc, bM,
                 results, bChClosed, reading, written, closeVars>>

\* emitting loop, select case <-ctx.Done(): return, the deferred close runs
EmitCtxDone ==
  /\ Alive
  /\ bpc = "emit"
  /\ bnext <= bM
  /\ ctxDone[BatchCtx]
  /\ bpc' = "done"
  /\ bChClosed' = TRUE
  /\ UNCHANGED <<syncVars, clientVars, crashed, panicking, ctxDone, workerVars, bM, results,
                 bnext, emitted, reading, written, closeVars>>

\* mutant: one closed error for the whole batch, as for a single call
ClosedEmitOnce ==
  /\ Alive
  /\ bpc = "closedemit"
  /\ bnext <= bM
  /\ reading
  /\ emitted' = Append(emitted, [writer |-> 0, kind |-> "ClosedError"])
  /\ bnext' = bM + 1
  /\ UNCHANGED <<syncVars, clientVars, crashed, panicking, ctxDone, workerVars, bpc, bM,
                 results, bChClosed, reading, written, closeVars>>

\* closed client: for range contents { resultChan <- closed error } (no select)
ClosedEmit ==
  /\ Alive
  /\ bpc = "closedemit"
  /\ bnext <= bM
  /\ reading
  /\ emitted' = Append(emitted, [writer |-> 0, kind |-> "ClosedError"])
  /\ bnext' = bnext + 1
  /\ UNCHANGED <<syncVars, clientVars, crashed, panicking, ctxDone, workerVars, bpc, bM,
                 results, bChClosed, reading, written, closeVars>>

\* the loop is over: deferred close(resultChan)
BatchFinish ==
  /\ Alive
  /\ bpc \in {"emit", "closedemit"}
  /\ bnext > bM
  /\ bpc' = IF bpc = "emit" THEN "done" ELSE "rejected"
  /\ bChClosed' = TRUE
  /\ UNCHANGED <<syncVars, clientVars, crashed, panicking, ctxDone, workerVars, bM, results,
                 bnext, emitted, reading, written, closeVars>>

\* the consumer of the batch channel stops receiving
ConsumerStop ==
  /\ Alive
  /\ reading
  /\ bpc \notin {"idle", "done", "rejected"}
  /\ reading' = FALSE
  /\ UNCHANGED <<syncVars, clientVars, crashed, panicking, ctxDone, workerVars, bpc, bM,
                 results, bnext, emitted, bChClosed, written, closeVars>>

\* ------------------------------------------------------------------- Close
\* mutant: Close() does not return early on an already closed client
CloseFlipAlways(c) ==
  /\ Alive
  /\ cpc[c] = "idle"
  /\ IF FALSE
       THEN /\ cpc' = [cpc EXCEPT ![c] = "returned"]
            /\ UNCHANGED <<closed, flipped>>
       ELSE /\ closed' = TRUE
            /\ flipped' = flipped \cup {c}
            /\ cpc' = [cpc EXCEPT ![c] = "wait"]
  /\ UNCHANGED <<syncVars, capacity, tokens, poolClosed, wg, crashed, panicking, ctxDone,
                 workerVars, batchVars, poolCloses>>

\* Close() under closeMu.Lock(): return nil if already closed, else flip
CloseFlip(c) ==
  /\ Alive
  /\ cpc[c] = "idle"
  /\ IF closed
       THEN /\ cpc' = [cpc EXCEPT ![c] = "returned"]
            /\ UNCHANGED <<closed, flipped>>
       ELSE /\ closed' = TRUE
            /\ flipped' = flipped \cup {c}
            /\ cpc' = [cpc EXCEPT ![c] = "wait"]
  /\ UNCHANGED <<syncVars, capacity, tokens, poolClosed, wg, crashed, panicking, ctxDone,
                 workerVars, batchVars, poolCloses>>

\* ac.wg.Wait(): returns at once on a zero counter, else blocks
WaitEnter(c) ==
  /\ Alive
  /\ cpc[c] = "wait"
  /\ cpc' = [cpc EXCEPT ![c] = IF wg = 0 THEN "closepool" ELSE "blocked"]
  /\ UNCHANGED <<syncVars, clientVars, crashed, panicking, ctxDone, workerVars, batchVars,
                 flipped, poolCloses>>

\* the released Wait resumes; sync.WaitGroup panics if the counter was raised
\* again meanwhile ("WaitGroup is reused before previous Wait has returned")
WaitResume(c) ==
  /\ Alive
  /\ cpc[c] = "woken"
  /\ cpc' = [cpc EXCEPT ![c] = IF wg = 0 THEN "closepool" ELSE "panicked"]
  /\ UNCHANGED <<syncVars, clientVars, crashed, panicking, ctxDone, workerVars, batchVars,
                 flipped, poolCloses>>

\* mutant: Close() resets the flag once the pool is released
ClosePoolReset(c) ==
  /\ Alive
  /\ cpc[c] = "closepool"
  /\ poolCloses' = poolCloses + 1
  /\ IF poolClosed
       THEN /\ cpc' = [cpc EXCEPT ![c] = "panicked"]
            /\ poolClosed' = poolClosed
       ELSE /\ cpc' = [cpc EXCEPT ![c] = "returned"]
            /\ poolClosed' = TRUE
  /\ closed' = FALSE
  /\ UNCHANGED <<syncVars, capacity, tokens, wg, crashed, panicking, ctxDone,
                 workerVars, batchVars, flipped>>

\* close(ac.workerPool); return nil  (closing a closed channel panics)
ClosePool(c) ==
  /\ Alive
  /\ cpc[c] = "closepool"
  /\ poolCloses' = poolCloses + 1
  /\ IF poolClosed
       THEN /\ cpc' = [cpc EXCEPT ![c] = "panicked"]
            /\ poolClosed' = poolClosed
       ELSE /\ cpc' = [cpc EXCEPT ![c] = "returned"]
            /\ poolClosed' = TRUE
  /\ UNCHANGED <<syncVars, capacity, tokens, wg, closed, crashed, panicking, ctxDone,
                 workerVars, batchVars, flipped>>

\* a goroutine that panicked and ran its deferred calls ends the process
Crash ==
  /\ Alive
  /\ \/ \E w \in panicking : pc[w] = "done"
     \/ \E c \in Closers : cpc[c] = "panicked"
  /\ crashed' = TRUE
  /\ UNCHANGED <<syncVars, clientVars, panicking, ctxDone, workerVars, batchVars, closeVars>>

\* the steps of single-call worker t and of its caller
SingleStep(t) ==
  \/ SubmitCheck(t) \/ Spawn(t) \/ CloseChan(t)
  \/ Acquire(t) \/ SelectCtxDone(t) \/ SelectPanic(t)
  \/ Request(t) \/ Sleep(t) \/ Deliver(t) \/ Release(t) \/ WgDone(t)

\* the steps of a caller of Close()
CloseStep(c) == CloseFlip(c) \/ WaitEnter(c) \/ WaitResume(c) \/ ClosePool(c)

\* single-call submissions racing with Close() and with cancellation
Next ==
  \/ \E t \in Singles : SingleStep(t)
  \/ \E c \in Singles : Cancel(c)
  \/ \E c \in Closers : CloseStep(c)
  \/ Crash

Spec == Init /\ [][Next]_vars

\* a batch, one single CheckPrompt call and one Close() sharing the pool
BatchSingles == {1}
BatchClosers == {1}

ItemStep(w) ==
  \/ Acquire(w) \/ SelectCtxDone(w) \/ SelectPanic(w)
  \/ Request(w) \/ Sleep(w) \/ Deliver(w) \/ Release(w) \/ WgDone(w)

CollectorStep ==
  \/ \E m \in 0..MaxBatch : SubmitBatch(m)
  \/ BatchSpawn \/ BatchWait \/ EmitSend \/ EmitCtxDone \/ ClosedEmit \/ BatchFinish
  \/ ConsumerStop

NextBatch ==
  \/ CollectorStep
  \/ \E w \in Items : ItemStep(w)
  \/ \E t \in BatchSingles : SingleStep(t)
  \/ Cancel(BatchCtx)
  \/ \E c \in BatchClosers : CloseStep(c)
  \/ Crash

SpecBatch == Init /\ [][NextBatch]_vars


\* the batch alone with its consumer, its context and one Close(), under the
\* scheduler's fairness: a runnable goroutine eventually runs, a request
\* eventually returns (the HTTP client has a timeout), a timer eventually fires
NextBatchOnly ==
  \/ CollectorStep
  \/ \E w \in Items : ItemStep(w)
  \/ Cancel(BatchCtx)
  \/ \E c \in BatchClosers : CloseFlip(c) \/ WaitEnter(c) \/ ClosePool(c)
  \/ Crash

CollectorProgress ==
  BatchSpawn \/ BatchWait \/ EmitSend \/ EmitCtxDone \/ ClosedEmit \/ BatchFinish

SpecBatchFair ==
  /\ Init
  /\ [][NextBatchOnly]_vars
  /\ \A w \in Items : WF_vars(ItemStep(w))
  /\ WF_vars(CollectorProgress)

\* the single calls and Close() calls of Spec under the scheduler's fairness: a
\* runnable goroutine eventually runs (a request eventually returns, a timer
\* eventually fires), and a panic that unwound its goroutine ends the process
SpecFair ==
  /\ Init
  /\ [][Next]_vars
  /\ \A t \in Singles : WF_vars(SingleStep(t))
  /\ \A c \in Closers : WF_vars(CloseStep(c))
  /\ WF_vars(Crash)

\* ------------------------------------------------- any construction
\* The single calls, cancellations and Close() calls of Spec on a client built
\* with any maxConcurrency of -1..ConfigMaxConcurrency (-1 stands for every
\* negative value) or by NewAsyncClient.
ConcurrencyArgs == ((-1)..ConfigMaxConcurrency) \cup {DefaultConcurrency}

InitConstruct == \E mc \in ConcurrencyArgs : InitWith(mc, ConfigMaxRetries)

SpecConstruct == InitConstruct /\ [][Next]_vars

\* --------------------------------------------- makeRequestWithData alone
\* One call of makeRequestWithData on a Client built with any MaxRetries of
\* -1..MaxRetriesArg (-1 stands for every negative value), its context and the
\* answers of the server being free.
RetriesArgs == (-1)..MaxRetriesArg

engineVars == <<maxConcurrency, clientVars, crashed, panicking, ctxDone,
                workerVars, batchVars, closeVars>>

InitRetry == \E mr \in RetriesArgs : InitWith(ConfigMaxConcurrency, mr)

\* makeRequestWithData is entered: var lastErr error; attempt := 0
RetryCall ==
  /\ rpc = "idle"
  /\ rpc' = "request"
  /\ UNCHANGED <<engineVars, rMax, rAttempt, rTrace, rWaits, rErr, rCtxDone, rCutAt>>

\* one pass of the loop body: the request, then return or c.sleep(ctx, backoff)
RetryRequest ==
  /\ rpc = "request"
  /\ rAttempt <= rMax
  /\ \E r \in (IF rCtxDone THEN {"neterr"} ELSE AllResponses) :
       LET o == makeRequestAttempt(rMax, rAttempt, r) IN
         /\ rTrace' = Append(rTrace, r)
         /\ IF o.retry
              THEN /\ rpc' = "sleep"
                   /\ rWaits' = Append(rWaits, calculateBackoff(rAttempt))
                   /\ rErr' = rErr
              ELSE /\ rpc' = "returned"
                   /\ rErr' = o.kind
                   /\ rWaits' = rWaits
  /\ UNCHANGED <<engineVars, rMax, rAttempt, rCtxDone, rCutAt>>

\* c.sleep returns, on the timer or on ctx.Done(); continue; attempt++
RetrySleep ==
  /\ rpc = "sleep"
  /\ rAttempt' = rAttempt + 1
  /\ rpc' = "request"
  /\ UNCHANGED <<engineVars, rMax, rTrace, rWaits, rErr, rCtxDone, rCutAt>>

\* the context of the call is cancelled or times out
RetryCancel ==
  /\ rpc \in {"idle", "request", "sleep"}
  /\ ~rCtxDone
  /\ rCtxDone' = TRUE
  /\ rCutAt' = IF rpc = "sleep" THEN Len(rTrace) ELSE rCutAt
  /\ UNCHANGED <<engineVars, rMax, rpc, rAttempt, rTrace, rWaits, rErr>>

NextRetry == RetryCall \/ RetryRequest \/ RetrySleep \/ RetryCancel

SpecRetry == InitRetry /\ [][NextRetry]_vars

\* ------------------------------------------------------------------ claims
InFlightPoolWorkers == {w \in Workers : UsesPool(w) /\ InExecutor(w)}

\* C1: at no time are more than capacity workers, single-call and batch-item
\* workers counted together, inside their Executor call (attempts and backoff
\* waits included).
C1_ConcurrencyCap == Cardinality(InFlightPoolWorkers) <= capacity

\* C1 witness: the pool is full with a batch item backing off inside its
\* Executor while the single call and another batch item wait for a slot.
C1_Witness ==
  /\ Cardinality(InFlightPoolWorkers) = capacity
  /\ \E w \in Items : pc[w] = "sleep"
  /\ \E w \in Items : pc[w] = "select"
  /\ \E t \in BatchSingles : pc[t] = "select"

\* C2: on every path of a single-call submission the channel carries at most
\* one AsyncResult, and a closed channel has had exactly one result put on it.
C2_ExactlyOnce ==
  \A t \in Singles :
    /\ sent[t] <= 1
    /\ Len(chan[t]) <= 1
    /\ chClosed[t] => sent[t] = 1

BatchComplete ==
  /\ bpc = "done"
  /\ bChClosed
  /\ Len(emitted) = bM
  /\ \A j \in 1..bM : emitted[j] = results[j]

\* C4: a batch admitted on a client that stays open, whose context never ends
\* and whose consumer keeps reading, emits its M cells, each once, and is then
\* closed; a channel closed with the context still alive has emitted all M.
C4_BatchEmitsAll ==
  /\ [](Len(emitted) <= bM)
  /\ [](bpc = "done" /\ ~ctxDone[BatchCtx] => BatchComplete)
  /\ (bpc = "admitted") ~> (BatchComplete \/ closed \/ ctxDone[BatchCtx] \/ ~reading)

\* C4 witness: a full batch emitted and closed on an open client.
C4_Witness ==
  /\ BatchComplete
  /\ bM = MaxBatch
  /\ ~closed /\ ~ctxDone[BatchCtx] /\ reading

\* single-call workers registered with ac.wg and not yet through wg.Done()
Registered ==
  {t \in Singles : pc[t] \in {"select", "request", "sleep", "deliver", "release",
                              "closech", "wgdone"}}

\* C5: a single-call submission that sees closed = TRUE puts exactly one
\* "async client is closed" error on its channel and closes it, without
\* wg.Add, without a worker, without touching the pool or the Executor.
C5_ClosedFailsFast ==
  /\ [](\A t \in Singles : pc[t] = "rejected" =>
          /\ chan[t] = <<"ClosedError">>
          /\ sent[t] = 1
          /\ chClosed[t]
          /\ ~invoked[t])
  /\ [](wg = Cardinality(Registered))
  /\ [][\A t \in Singles : pc[t] = "idle" /\ pc'[t] # "idle" /\ closed =>
          /\ pc'[t] = "rejected"
          /\ wg' = wg
          /\ tokens' = tokens]_vars

\* C5 witness: a submission rejected while Close() is still draining another call.
C5_Witness ==
  /\ \E t \in Singles : pc[t] = "rejected"
  /\ \E c \in Closers : cpc[c] = "blocked"

\* C6: no submission registers with ac.wg (and starts its worker) at a moment
\* when closed is already true.
C6_NoAdmissionAfterClose ==
  [][\A t \in Singles : pc[t] = "admitted" /\ pc'[t] # "admitted" => ~closed]_vars

\* C7: when the Close() that flipped the flag has returned, every single-call
\* task that passed the closed check has delivered its result and closed its
\* channel, and the outstanding counter is 0.
C7_CloseReturnsDrained ==
  \A c \in flipped : cpc[c] = "returned" =>
    /\ wg = 0
    /\ \A t \in Singles : pc[t] \notin {"idle", "rejected"} =>
         pc[t] = "done" /\ chClosed[t] /\ sent[t] = 1

\* C8: Close() does not return while a batch item worker is still waiting for
\* a slot, running its Executor or holding a slot.
C8_CloseWaitsForBatch ==
  \A c \in flipped : cpc[c] = "returned" =>
    \A w \in Items : pc[w] \notin {"select", "request", "sleep", "deliver", "release"}

CancelledBeforeSlot(w) ==
  /\ ctxDone[CtxOf(w)]
  /\ pc[w] \in {"admitted", "select"} \/ lateCtx[w]

\* C10: a task whose context is cancelled before its worker has a slot never
\* has its Executor invoked, and its result is the context's error.
C10_CancelBeforeSlot ==
  \A t \in Singles : UsesPool(t) /\ CancelledBeforeSlot(t) =>
    /\ ~invoked[t]
    /\ sent[t] = 1 => chan[t] = <<"ctxErr">>

\* C11: cancelling a context changes nothing but that context's done flag, and
\* the step of a waiter that gives up on its cancelled context leaves the
\* slots, the closed flag and every other worker, channel and cell as they
\* were; a worker that gave up never goes through the slot release.
C11_CancelFrame ==
  /\ [][\A c \in Contexts : ctxDone'[c] # ctxDone[c] =>
          /\ \A d \in Contexts \ {c} : ctxDone'[d] = ctxDone[d]
          /\ UNCHANGED <<clientVars, workerVars, batchVars, closeVars, crashed,
                         panicking>>]_vars
  /\ [][\A w \in Workers : pc[w] = "select" /\ res'[w] = "ctxErr" =>
          /\ UNCHANGED <<clientVars, closeVars, crashed, panicking, ctxDone>>
          /\ \A u \in Workers \ {w} :
               /\ pc'[u] = pc[u] /\ res'[u] = res[u] /\ attempt'[u] = attempt[u]
          /\ \A t \in Singles \ {w} :
               /\ chan'[t] = chan[t] /\ chClosed'[t] = chClosed[t]
          /\ \A i \in 1..MaxBatch : i # IndexOf(w) => results'[i] = results[i]
          /\ emitted' = emitted]_vars
  /\ [](\A w \in Workers : res[w] = "ctxErr" => pc[w] \in {"closech", "wgdone", "done"})

\* C11 witness: a batch item gave up on the cancelled batch context while the
\* single call, under its own live context, holds the only slot of the open
\* client and is inside its Executor.
C11_Witness ==
  /\ ctxDone[BatchCtx]
  /\ \E w \in Items : res[w] = "ctxErr"
  /\ \E t \in BatchSingles : pc[t] = "request" /\ ~ctxDone[CtxOf(t)]
  /\ tokens = capacity
  /\ ~closed

\* C12: once the context of a task ends while its Executor call is in flight
\* (the worker got its slot under a live context), the worker's next step
\* leaves the Executor and carries the context's error, whatever the Executor
\* does.
C12_CancelInFlight ==
  [][\A t \in Singles :
       /\ UsesPool(t) /\ InExecutor(t) /\ ~lateCtx[t]
       /\ ctxDone[CtxOf(t)]
       /\ pc'[t] # pc[t]
       => ~InExecutor(t)' /\ res'[t] = "ctxErr"]_vars

\* the attempts made so far were all answered with one of the responses rs
AllAnswered(rs) == \A i \in 1..Len(rTrace) : rTrace[i] \in rs

\* C13: a call whose attempts are all answered with 429 under a live context
\* never makes more than maxRetries + 1 attempts, and when it has returned it
\* has made exactly maxRetries + 1 attempts and maxRetries backoff waits and
\* returns a RateLimitError, for every maxRetries >= 0.
C13_RateLimitAttempts ==
  AllAnswered({"429"}) /\ ~rCtxDone =>
    /\ Len(rTrace) <= rMax + 1
    /\ Len(rWaits) <= rMax
    /\ rpc = "request" => Len(rWaits) = Len(rTrace)
    /\ rpc = "returned" => /\ Len(rTrace) = rMax + 1
                           /\ Len(rWaits) = rMax
                           /\ rErr = "RateLimitError"

\* C13 witness: on the default budget (MaxRetries -1 gives 3) the call returned
\* a RateLimitError after 4 attempts and 3 waits.
C13_Witness ==
  /\ rMax = DefaultMaxRetries
  /\ rpc = "returned"
  /\ ~rCtxDone
  /\ rTrace = <<"429", "429", "429", "429">>
  /\ Len(rWaits) = 3
  /\ rErr = "RateLimitError"

\* C14: the i-th backoff wait of a call (the one before retry k = i - 1) is
\* asked for 2^k + 1 seconds, whatever the failures that led to it were, and
\* there are at most maxRetries of them.
C14_BackoffSchedule ==
  /\ Len(rWaits) <= rMax
  /\ \A i \in 1..Len(rWaits) : rWaits[i] = 2 ^ (i - 1) + 1

\* C14 witness: a network failure, a 429 and another status were each followed
\* by a wait, of 2, 3 and 5 seconds.
C14_Witness ==
  /\ Len(rTrace) >= 3
  /\ {rTrace[1], rTrace[2], rTrace[3]} = {"neterr", "429", "500"}
  /\ rWaits = <<2, 3, 5>>

\* C15: an attempt answered with 401 or 422 is the last one: the call has
\* returned the matching error, and every wait it made came before that
\* attempt.
C15_TerminalNoRetry ==
  \A i \in 1..Len(rTrace) : rTrace[i] \in {"401", "422"} =>
    /\ i = Len(rTrace)
    /\ rpc = "returned"
    /\ rErr = handleErrorResponse(rTrace[i])
    /\ Len(rWaits) = i - 1

\* C15 witness: a 422 at loop index 2, after two retried failures, ended a
\* call that had retries left.
C15_Witness ==
  /\ rMax = DefaultMaxRetries
  /\ Len(rTrace) = 3
  /\ rTrace[3] = "422"
  /\ rErr = "ValidationError"
  /\ rpc = "returned"

\* C16: when the context ended during a backoff wait, no attempt is made after
\* that wait and the call returns the context's error.
C16_CancelDuringBackoff ==
  rCutAt > 0 =>
    /\ Len(rTrace) = rCutAt
    /\ rpc = "returned" => rErr = "ctxErr"

\* the error an exhausted budget leaves, by the answer to the last attempt
LastFailure(r) == IF r = "neterr" THEN "NetworkError" ELSE handleErrorResponse(r)

\* C17: a call that used its whole budget on transient failures returns the
\* error of its last attempt: a RateLimitError after a final 429, a
\* NetworkError after a final network failure, the status error otherwise.
C17_LastErrorKind ==
  /\ rpc = "returned"
  /\ Len(rTrace) = rMax + 1
  /\ AllAnswered({"neterr", "429", "500"})
  => rErr = LastFailure(rTrace[Len(rTrace)])

\* C17 witness: a budget that began with a network failure and ended on a 429
\* returned a RateLimitError.
C17_Witness ==
  /\ rpc = "returned"
  /\ rMax >= 2
  /\ Len(rTrace) = rMax + 1
  /\ rTrace[1] = "neterr"
  /\ rTrace[Len(rTrace)] = "429"
  /\ rErr = "RateLimitError"

\* C18: as long as the process lives, a submission is never made to wait: the
\* closed check of a single call, its wg.Add(1) and go statement, and the
\* batch call are enabled in every state, whatever the pool holds and
\* whatever Close() is doing.
C18_SubmitNeverBlocks ==
  Alive =>
    /\ \A t \in Singles : pc[t] = "idle" => ENABLED SubmitCheck(t)
    /\ \A t \in Singles : pc[t] = "admitted" => ENABLED Spawn(t)
    /\ bpc = "idle" => ENABLED (\E m \in 0..MaxBatch : SubmitBatch(m))

\* C18 witness: a batch call has returned its channel (nothing emitted yet)
\* while every slot is held and Close() is blocked in ac.wg.Wait().
C18_Witness ==
  /\ tokens = capacity
  /\ \E c \in Closers : cpc[c] = "blocked"
  /\ bpc = "closedemit"
  /\ bM = MaxBatch
  /\ emitted = <<>>
  /\ Alive

\* submitted tasks (registered, worker started) whose result is not delivered
Outstanding == {w \in Workers : pc[w] \in {"select", "request", "sleep", "deliver"}}

\* C19: GetActiveWorkers is the number of submitted tasks whose result has not
\* been delivered yet, those still waiting for a slot included.
C19_ActiveIsOutstanding == GetActiveWorkers = Cardinality(Outstanding)

\* the pool size the constructor's argument stands for
ConfiguredSize == IF maxConcurrency > 0 THEN maxConcurrency ELSE DefaultConcurrency

\* C20: in every state GetConcurrency is the size fixed at construction: the
\* maxConcurrency given when positive, 10 when it is zero or negative, 10 for
\* NewAsyncClient; no submission, cancellation or Close() changes it.
C20_ConcurrencyFixed ==
  /\ GetConcurrency = ConfiguredSize
  /\ maxConcurrency = DefaultConcurrency => GetConcurrency = NewAsyncClient

\* C20 witness: a client built with maxConcurrency 0 still reports 10 after a
\* call was served, another was cancelled and Close() has returned.
C20_Witness ==
  /\ maxConcurrency = 0
  /\ GetConcurrency = DefaultConcurrency
  /\ \E t \in Singles : pc[t] = "done" /\ chan[t] = <<"ok">>
  /\ \E t \in Singles : ctxDone[CtxOf(t)]
  /\ \E c \in Closers : cpc[c] = "returned" /\ c \in flipped
  /\ poolClosed

\* C21: a batch of 0 inputs on an open client starts no worker, takes no slot,
\* invokes no Executor and emits nothing, and its channel ends up closed.
C21_EmptyBatch ==
  /\ [](bM = 0 /\ bpc \in {"admitted", "wait", "emit", "done"} =>
          /\ emitted = <<>>
          /\ tokens = 0
          /\ \A w \in Items : pc[w] = "idle" /\ ~invoked[w]
          /\ bpc = "done" <=> bChClosed)
  /\ (bM = 0 /\ bpc = "admitted") ~> (bChClosed /\ emitted = <<>>)

\* C21 witness: the channel of an empty batch is closed with nothing emitted
\* on a client that is still open.
C21_Witness ==
  /\ bM = 0
  /\ bpc = "done"
  /\ bChClosed
  /\ emitted = <<>>
  /\ ~closed

\* the channel of single call t carries its one result and is closed
Resolved(t) == chClosed[t] /\ sent[t] = 1

\* C22: every single-call task that passed the closed check eventually has its
\* one result on its channel and the channel closed, and a channel is never
\* closed with no result put on it.
C22_TaskResolves ==
  /\ \A t \in Singles : (pc[t] = "admitted") ~> Resolved(t)
  /\ [](\A t \in Singles : chClosed[t] => sent[t] = 1)

\* the same, for the runs that do not end on a panic
C22_ResolvesUnlessCrash ==
  \A t \in Singles : (pc[t] = "admitted") ~> (Resolved(t) \/ crashed)

\* C23: no Close() call ever panics, and every Close() call that started
\* eventually returns nil.
C23_CloseCompletes ==
  /\ [](\A c \in Closers : cpc[c] # "panicked")
  /\ \A c \in Closers : (cpc[c] # "idle") ~> (cpc[c] = "returned")

\* the workers that sent to ac.workerPool and have not received from it yet
SlotHolders == {w \in Workers : HoldsSlot(w)}

\* C24: the tokens in the pool are exactly the workers that acquired a slot
\* and have not released it, between 0 and K of them; tokens enter and leave
\* one at a time, each with its own worker, whatever the Executor returned; a
\* worker that gave up on its context holds nothing; with no worker between
\* its select and its release the pool is empty.
C24_SlotAccounting ==
  /\ [](tokens = Cardinality(SlotHolders) /\ tokens \in 0..capacity)
  /\ [](\A w \in Workers : res[w] = "ctxErr" => ~HoldsSlot(w))
  /\ []((\A w \in Workers : pc[w] \in {"idle", "admitted", "rejected", "done"})
          => tokens = 0)
  /\ [][tokens' < tokens =>
          /\ tokens' = tokens - 1
          /\ \E w \in Workers : /\ HoldsSlot(w) /\ ~HoldsSlot(w)'
                                 /\ \A u \in Workers \ {w} : pc'[u] = pc[u]]_vars
  /\ [][tokens' > tokens =>
          /\ tokens' = tokens + 1
          /\ \E w \in Workers : /\ ~HoldsSlot(w) /\ HoldsSlot(w)'
                                 /\ \A u \in Workers \ {w} : pc'[u] = pc[u]]_vars

\* C24 witness: one batch item came back from its Executor with a response,
\* the other with an error, the single call went through its Executor too, and
\* with all of them finished the pool is empty.
C24_Witness ==
  /\ bM = MaxBatch
  /\ \A w \in Items : pc[w] = "done"
  /\ \E i, j \in 1..MaxBatch : /\ results[i].kind = "ok" /\ invoked[ItemAt(i)]
                                /\ results[j].kind = "NetworkError"
  /\ \A t \in BatchSingles : pc[t] = "done" /\ invoked[t]
  /\ tokens = 0

\* C25: a single-call task whose result is on its channel no longer holds the
\* slot it had acquired.
C25_ReleaseBeforeDeliver ==
  \A t \in Singles : UsesPool(t) /\ invoked[t] /\ sent[t] >= 1 => ~HoldsSlot(t)

\* the workers, of every kind of task, inside their Executor call
InExecutorAll == {w \in Workers : InExecutor(w)}

\* C26: a worker of any kind of task, health checks and model listings
\* included, holds a slot while it is inside its Executor call, so no more
\* than K Executor calls run at once.
C26_EveryTaskHoldsSlot ==
  /\ \A w \in Workers : InExecutor(w) => HoldsSlot(w)
  /\ Cardinality(InExecutorAll) <= capacity

\* C27: the request of a health check or model listing that has retries left
\* does not end on a transient failure: it is retried like a check's.
C27_HealthCheckRetried ==
  [][\A t \in Singles :
       /\ ~UsesPool(t)
       /\ pc[t] = "request" /\ attempt[t] < maxRetries
       /\ pc'[t] = "deliver"
       => res'[t] \notin {"NetworkError", "RateLimitError"}]_vars

\* what the specification calls a transient failure
Transient == {"neterr", "429", "500"}

\* C28: an attempt is followed by a backoff wait and another attempt exactly
\* when it failed on a transient failure with retries left; an attempt that
\* failed otherwise (401, 422, another 4xx, a body that does not parse) is the
\* last one.
C28_RetryIffTransient ==
  \A i \in 1..Len(rTrace) :
    /\ rTrace[i] \notin Transient => i = Len(rTrace) /\ rpc = "returned"
    /\ rTrace[i] \in Transient /\ i <= rMax => i < Len(rTrace) \/ rpc # "returned"

\* C29: an attempt answered with a response that parses ends the call with
\* that response and no error, however many failed attempts (at most
\* maxRetries, each followed by its wait) came before it: after j failures the
\* successful attempt is the (j + 1)-th and last.
C29_SuccessAfterRetries ==
  \A i \in 1..Len(rTrace) : rTrace[i] = "200" =>
    /\ i = Len(rTrace)
    /\ i <= rMax + 1
    /\ rpc = "returned"
    /\ rErr = "ok"
    /\ rAttempt = i - 1
    /\ Len(rWaits) = i - 1

\* C29 witness: the whole budget of retries was used on a network failure, a
\* 429 and more, and the last attempt allowed returned the response.
C29_Witness ==
  /\ rMax >= 2
  /\ Len(rTrace) = rMax + 1
  /\ rTrace[1] = "neterr"
  /\ rTrace[2] = "429"
  /\ rTrace[Len(rTrace)] = "200"
  /\ rpc = "returned"
  /\ rErr = "ok"

\* C30: when an item of a batch has been emitted, each of the M item workers
\* of the batch has finished and has written its cell, with the outcome of
\* its Executor call or with the context's error.
C30_BatchBarrier ==
  Len(emitted) > 0 /\ bpc \in {"emit", "done"} =>
    \A i \in 1..bM : /\ pc[ItemAt(i)] = "done"
                      /\ results[i].writer = i
                      /\ results[i].kind # "zero"

\* the barrier alone: nothing is emitted before every item worker is through
\* its deferred wg.Done()
C30_AllWorkersThrough ==
  Len(emitted) > 0 /\ bpc \in {"emit", "done"} =>
    \A i \in 1..bM : pc[ItemAt(i)] = "done"

\* C31: the collector of an admitted batch puts no item on the output channel
\* in a state in which the context of the batch is already done.
C31_NoEmitAfterCancel ==
  [][Len(emitted') > Len(emitted) /\ bpc = "emit" => ~ctxDone[BatchCtx]]_vars

\* number of writes made to cell i of the results slice
Writes(i) == Cardinality({j \in 1..Len(written) : written[j] = i})

\* no cell is shared: workers exist for the M cells only, a cell holds nothing
\* but what the worker of its index wrote, at most once, and the collector
\* reads a cell only when that worker is through its deferred wg.Done()
C32_NoSharedCell ==
  /\ \A w \in Items : pc[w] # "idle" => IndexOf(w) <= bM
  /\ \A i \in 1..MaxBatch : results[i].writer \in {0, i} /\ Writes(i) <= 1
  /\ bpc \in {"wait", "emit", "done"} =>
       \A j \in 1..Len(emitted) : pc[ItemAt(j)] = "done" /\ emitted[j] = results[j]

\* C32: the M cells of a batch are fixed before any worker starts, worker i
\* writes cell i and no other, no cell is written by two workers, the
\* collector reads a cell only after its writer has finished, and a worker
\* that has finished has written its cell exactly once.
C32_CellWrittenOnce ==
  /\ C32_NoSharedCell
  /\ \A i \in 1..bM : pc[ItemAt(i)] = "done" => Writes(i) = 1

\* C33: close(ac.workerPool) runs only in a state where the closed flag is set
\* and the outstanding counter ac.wg is 0.
C33_ReleaseWhenDrained ==
  [][~poolClosed /\ poolClosed' => closed /\ wg = 0]_vars

\* the part about the flag alone: the pool is never released on an open client
C33_ReleaseAfterFlag ==
  [][~poolClosed /\ poolClosed' => closed]_vars

\* C34: the closed flag, once set, stays set; the pool, once released, stays
\* released; the pool is released on a closed client only (Open, Closing,
\* Closed in this order); and the flag changes in no step but the flip of a
\* Close() call.
C34_Lifecycle ==
  /\ [][closed => closed']_vars
  /\ [][poolClosed => poolClosed']_vars
  /\ [](poolClosed => closed)
  /\ [][~closed => ~poolClosed']_vars
  /\ [][closed' # closed =>
          \E c \in Closers : cpc[c] = "idle" /\ cpc'[c] = "wait"]_vars

\* C34 witness: after Close() released the pool and returned, a batch call and
\* a single call were still answered by the closed client.
C34_Witness ==
  /\ closed /\ poolClosed
  /\ \E c \in Closers : cpc[c] = "returned"
  /\ bpc = "rejected"
  /\ \E t \in BatchSingles : pc[t] = "rejected"

\* C35: no worker, of a single call or of a batch item, is at its
\* slot-acquiring select in a state in which workerPool has been closed.
C35_NoSendOnReleasedPool ==
  \A w \in Workers : pc[w] = "select" => ~poolClosed

\* C36: when a Close() call has returned, whichever call it is, no admitted
\* single-call task is undelivered, the outstanding counter is 0 and the pool
\* has been released.
C36_AnyCloseReturnsDrained ==
  \A c \in Closers : cpc[c] = "returned" =>
    /\ poolClosed
    /\ wg = 0
    /\ \A t \in Singles : pc[t] \in {"idle", "rejected", "done"}

\* the closed error a batch emits for one input
ClosedCell == [writer |-> 0, kind |-> "ClosedError"]

\* C37: a batch that saw the closed flag set emits closed errors only, at most
\* M of them, starts no worker, takes no slot and invokes no Executor; its
\* channel is closed exactly when M errors have been emitted; and with a
\* consumer that keeps reading it does get there.
C37_ClosedBatch ==
  /\ [](bpc \in {"closedemit", "rejected"} =>
          /\ Len(emitted) <= bM
          /\ \A j \in 1..Len(emitted) : emitted[j] = ClosedCell
          /\ \A w \in Items : pc[w] = "idle" /\ ~invoked[w]
          /\ tokens = 0
          /\ bChClosed <=> bpc = "rejected"
          /\ bpc = "rejected" => Len(emitted) = bM)
  /\ [][bpc = "idle" /\ bpc' # "idle" /\ closed => bpc' = "closedemit"]_vars
  /\ (bpc = "closedemit") ~> (bpc = "rejected" \/ ~reading)

\* C37 witness: a full batch submitted to a closed client got its M closed
\* errors and a closed channel.
C37_Witness ==
  /\ bpc = "rejected"
  /\ bM = MaxBatch
  /\ emitted = [j \in 1..MaxBatch |-> ClosedCell]
  /\ bChClosed

\* C38: once the context of a batch is done, the goroutine feeding its output
\* channel ends and closes the channel, on an open and on a closed client,
\* whether the consumer still reads or not (a process ended by a panic has no
\* goroutine left).
C38_EmitterEndsOnCancel ==
  (bpc \notin {"idle", "done", "rejected"} /\ ctxDone[BatchCtx])
    ~> (bChClosed \/ crashed)

\* the same for the collector of an admitted batch only
C38_CollectorEndsOnCancel ==
  (bpc \in {"admitted", "wait", "emit"} /\ ctxDone[BatchCtx])
    ~> (bChClosed \/ crashed)

\* C39: with no caller ever receiving, a single-call worker that has its
\* result finds the buffer of its channel empty and is never made to wait: its
\* send, its slot release, its close and its wg.Done() are each enabled when
\* it gets to them, and no channel ever holds more than its capacity.
C39_DeliverNeverBlocks ==
  /\ \A t \in Singles : Len(chan[t]) <= ResultChanCap /\ sent[t] <= ResultChanCap
  /\ Alive =>
       \A t \in Singles :
         /\ pc[t] = "deliver" => chan[t] = <<>> /\ ENABLED Deliver(t)
         /\ pc[t] = "release" => ENABLED Release(t)
         /\ pc[t] = "closech" => ENABLED CloseChan(t)
         /\ pc[t] = "wgdone" => ENABLED WgDone(t)

\* C39 witness: every result is still unread in its channel, yet the workers
\* are finished, the slot is back, the counter is 0 and Close() has returned.
C39_Witness ==
  /\ \A t \in Singles : pc[t] = "done" /\ Len(chan[t]) = 1 /\ invoked[t]
  /\ tokens = 0
  /\ wg = 0
  /\ \E c \in flipped : cpc[c] = "returned"
  /\ Alive

====
